---- MODULE Spec2Model ----
(***************************************************************************)
(* The image library of the photo studio front end (App component).       *)
(*                                                                         *)
(* State: the React state of App that the library operations read and     *)
(* write (library, prompt, outputImage, isLoading, error, isLibraryOpen), *)
(* the localStorage entry 'ai-photo-studio-library', the files the user   *)
(* can pick in the import dialog, the FileReader reads that are still     *)
(* pending, and what the user was shown (alert, unhandled exception).     *)
(*                                                                         *)
(* JavaScript values are encoded uniformly so that values of different    *)
(* JavaScript types can be compared:                                      *)
(*   scalar   [t, s, n]   t in "undefined" | "string" | "number"          *)
(*   element  [t, id, imageDataUrl, mimeType, prompt, timestamp]          *)
(*            t in "object" | "null" | "number"; a missing key reads as   *)
(*            undefined, as property access does in JavaScript            *)
(*   value    [t, elems]  t in "array" | "object" | "number" | "string"   *)
(*            | "null"                                                     *)
(* A text (file content, localStorage value) is what JSON.stringify       *)
(* writes: objects as lists of key/value members, undefined-valued        *)
(* properties left out, with or without indentation.  Keys other than     *)
(* the five SavedImage keys and the order of keys are not modelled.       *)
(***************************************************************************)
EXTENDS Integers, Sequences, FiniteSets, TLC

\* ---------------------------------------------------------------- bounds
MaxSaves == 1      \* save-to-library operations in one behaviour
MaxImports == 2    \* imports started in one behaviour (so at most as many pending reads)
MaxUploads == 2    \* calls of handleImageUpload in one behaviour

\* ------------------------------------------------------ JavaScript values
Undef == [t |-> "undefined", s |-> "", n |-> 0]
Null == [t |-> "null", s |-> "", n |-> 0]
Str(x) == [t |-> "string", s |-> x, n |-> 0]
Num(x) == [t |-> "number", s |-> "", n |-> x]

\* JavaScript truthiness of a scalar: "" and 0 and undefined are falsy.
Truthy(v) ==
  CASE v.t = "string" -> v.s # ""
    [] v.t = "number" -> v.n # 0
    [] OTHER -> FALSE

Keys == <<"id", "imageDataUrl", "mimeType", "prompt", "timestamp">>

Obj(id, url, mime, prompt, ts) ==
  [t |-> "object", id |-> id, imageDataUrl |-> url, mimeType |-> mime,
   prompt |-> prompt, timestamp |-> ts]

NullElem ==
  [t |-> "null", id |-> Undef, imageDataUrl |-> Undef, mimeType |-> Undef,
   prompt |-> Undef, timestamp |-> Undef]

Arr(elems) == [t |-> "array", elems |-> elems]
NonArr(type) == [t |-> type, elems |-> <<>>]

Get(e, k) ==
  CASE k = "id" -> e.id
    [] k = "imageDataUrl" -> e.imageDataUrl
    [] k = "mimeType" -> e.mimeType
    [] k = "prompt" -> e.prompt
    [] k = "timestamp" -> e.timestamp

\* An input image slot: null, or {base64, mimeType, dataUrl}.
NoImage == [t |-> "null", base64 |-> Undef, mimeType |-> Undef, dataUrl |-> Undef]

ImageData(base64, mimeType, dataUrl) ==
  [t |-> "object", base64 |-> base64, mimeType |-> mimeType, dataUrl |-> dataUrl]

\* dataUrl.split(',')[1] of the strings that occur: the part after the first
\* comma up to the next, undefined when the string has no comma.
SplitComma1(str) ==
  CASE str = "data:image/png;base64,AAAA" -> Str("AAAA")
    [] str = "data:image/png;base64,BBBB" -> Str("BBBB")
    [] str = "data:image/jpeg;base64,XXXX" -> Str("XXXX")
    [] str = "data:image/png;base64,YYYY" -> Str("YYYY")
    [] OTHER -> Undef

\* ------------------------------------------------------------ JSON texts
NoText == [kind |-> "absent", indent |-> 0, top |-> "", members |-> <<>>]
EmptyText == [kind |-> "empty", indent |-> 0, top |-> "", members |-> <<>>]
Garbage == [kind |-> "garbage", indent |-> 0, top |-> "", members |-> <<>>]

\* The members JSON.stringify writes for one array element: a property
\* whose value is undefined is left out; null is written as null.
StringifyElem(e) ==
  IF e.t = "object"
  THEN [t |-> "object",
        props |-> SelectSeq([i \in 1..Len(Keys) |-> [k |-> Keys[i], v |-> Get(e, Keys[i])]],
                            LAMBDA m : m.v.t # "undefined")]
  ELSE [t |-> e.t, props |-> <<>>]

\* JSON.stringify(value, null, indent)
JSONstringify(val, indent) ==
  [kind |-> "json", indent |-> indent, top |-> val.t,
   members |-> [i \in 1..Len(val.elems) |-> StringifyElem(val.elems[i])]]

\* The value of key k among the members of a parsed object: the last
\* member with that key, undefined when there is none.
Lookup(props, k) ==
  LET hits == SelectSeq(props, LAMBDA m : m.k = k)
  IN IF Len(hits) = 0 THEN Undef ELSE hits[Len(hits)].v

ParseElem(m) ==
  IF m.t = "object"
  THEN Obj(Lookup(m.props, "id"), Lookup(m.props, "imageDataUrl"),
           Lookup(m.props, "mimeType"), Lookup(m.props, "prompt"),
           Lookup(m.props, "timestamp"))
  ELSE [NullElem EXCEPT !.t = m.t]

\* JSON.parse: ok = FALSE stands for the SyntaxError it throws.
JSONparse(text) ==
  IF text.kind = "json"
  THEN [ok |-> TRUE,
        val |-> [t |-> text.top,
                 elems |-> [i \in 1..Len(text.members) |-> ParseElem(text.members[i])]]]
  ELSE [ok |-> FALSE, val |-> NonArr("null")]

\* No call of handleGenerate is pending.
NoCall == [fn |-> "none", tab |-> "none"]

\* ----------------------------------------------------------------- state
VARIABLES
  library,        \* useState<SavedImage[]>: whatever setLibrary was given
  store,          \* localStorage['ai-photo-studio-library'] (NoText: no entry)
  userFile,       \* the file the user holds from elsewhere
  exported,       \* the file the last export downloaded (NoText: none yet)
  reads,          \* pending FileReader reads: the file and the library the
                  \* onload closure captured when the import was started
  prompt,         \* useState<string>
  outputImage,    \* useState<string | null>
  isLoading,      \* useState<boolean>
  error,          \* useState<string | null>
  isLibraryOpen,  \* useState<boolean>
  request,        \* the generate request awaiting its response ("none" | "sent")
  mounted,        \* the mount effects have run
  crashed,        \* a render threw: the component tree is unmounted
  saves,          \* entries created so far (Date.now() and Math.random() advance)
  imports,        \* imports started so far
  capacity,       \* entries the origin's localStorage quota has room for
  last,           \* history: the library operation that completed last
  activeTab,      \* useState<FeatureKey>
  inputImage,     \* useState<{base64, mimeType, dataUrl} | null>, slot 1
  inputImage2,    \* the same, slot 2
  uploads,        \* the calls of handleImageUpload in the order they were made:
                  \* slot, file, and where the call is (awaiting the read,
                  \* resumed with the image, resumed in its catch)
  call            \* the pending call of handleGenerate: the service function
                  \* it awaits and the tab it was started on (NoCall: none)

vars ==
  <<library, store, userFile, exported, reads, prompt, outputImage, isLoading,
    error, isLibraryOpen, request, mounted, crashed, saves, imports, capacity, last,
    activeTab, inputImage, inputImage2, uploads, call>>

uiVars == <<prompt, outputImage, isLoading, error, request, call>>

studioVars == <<activeTab, inputImage, inputImage2, uploads>>

\* ------------------------------------------------------------- the inputs
Urls == {"data:image/png;base64,AAAA", "data:image/png;base64,BBBB"}
Prompts == {"", "cat"}

\* Entries a file or the store can hold.
EntryA == Obj(Str("a"), Str("data:image/png;base64,AAAA"), Str("image/png"), Str("p"), Num(2000))
\* a second valid entry with the id of EntryA
EntryA2 == Obj(Str("a"), Str("data:image/png;base64,BBBB"), Str("image/png"), Str("q"), Num(1000))
\* a valid entry without mimeType, older than EntryA
EntryB == Obj(Str("b"), Str("data:image/png;base64,BBBB"), Undef, Str("q"), Num(1000))
\* timestamp 0
EntryZero == Obj(Str("c"), Str("data:image/png;base64,AAAA"), Str("image/png"), Str("p"), Num(0))
\* no timestamp: {"id":"d","imageDataUrl":"d","prompt":"p"}
EntryNoTime == Obj(Str("d"), Str("d"), Undef, Str("p"), Undef)
\* empty imageDataUrl
EntryNoUrl == Obj(Str("e"), Str(""), Str("image/png"), Str("p"), Num(1000))
\* empty prompt
EntryNoPrompt == Obj(Str("f"), Str("data:image/png;base64,AAAA"), Str("image/png"), Str(""), Num(1000))

\* a second entry of the shape handleSaveToLibrary writes
EntryS == Obj(Str("s"), Str("data:image/png;base64,BBBB"), Str("image/png"), Str("cat"), Num(2500))

Capacities == {1, 99}

FeatureKeys == {"text-to-photo", "image-to-photo", "image-fusion", "ai-model", "edit-photo"}

\* FEATURES_CONFIG[key].requiresImage
requiresImage(key) == key # "text-to-photo"

\* The image files the user can pick in an uploader: file.type and the data
\* URL readAsDataURL gives.
UploadFiles ==
  {[type |-> "image/jpeg", dataUrl |-> "data:image/jpeg;base64,XXXX"],
   [type |-> "image/png", dataUrl |-> "data:image/png;base64,YYYY"]}

\* Files the user may hold: a text that is no JSON, a JSON value that is no
\* array, and JSON arrays of entries.
Texts ==
  {Garbage, JSONstringify(NonArr("object"), 2)}
    \cup {JSONstringify(Arr(q), 2) :
            q \in {<<>>, <<EntryA, EntryA2>>, <<EntryA, EntryB>>, <<EntryZero>>,
                   <<EntryNoTime>>, <<EntryNoUrl, EntryB>>, <<EntryNoPrompt>>,
                   <<EntryB, NullElem>>}}

\* What an earlier session or another script of the origin may have left in
\* localStorage: nothing, the empty string, a text that is no JSON, JSON
\* values that are no array, and JSON arrays.
StoredTexts ==
  {NoText, EmptyText, Garbage}
    \cup {JSONstringify(NonArr(ty), 0) : ty \in {"object", "number", "string", "null"}}
    \cup {JSONstringify(Arr(q), 0) :
            q \in {<<>>, <<NullElem>>, <<EntryZero>>, <<EntryNoPrompt>>,
                   <<EntryA>>, <<EntryS, EntryA>>}}

\* op: "load" | "save" | "delete" | "export" | "import" (reader.onload ran) |
\* "readError" (reader.onerror ran); pre: the library just before it; file:
\* the text read or written; alert: the alert shown; count: the number in it;
\* writeFailed: localStorage.setItem threw; threw: an exception left the
\* handler uncaught.
NoOp ==
  [op |-> "none", pre |-> Arr(<<>>), file |-> NoText, alert |-> "none", count |-> 0,
   writeFailed |-> FALSE, threw |-> FALSE]

\* The state after construction, before the mount effects.
Constructed ==
  /\ library = Arr(<<>>)
  /\ exported = NoText
  /\ reads = <<>>
  /\ prompt = ""
  /\ outputImage = Null
  /\ isLoading = FALSE
  /\ error = Null
  /\ isLibraryOpen = FALSE
  /\ request = "none"
  /\ call = NoCall
  /\ mounted = FALSE
  /\ crashed = FALSE
  /\ saves = 0
  /\ imports = 0
  /\ capacity \in Capacities
  /\ last = NoOp
  /\ activeTab = "text-to-photo"
  /\ inputImage = NoImage
  /\ inputImage2 = NoImage
  /\ uploads = <<>>

\* Sessions with every operation: the stored text and the file are few.
Init ==
  /\ Constructed
  /\ store \in {NoText, Garbage, JSONstringify(Arr(<<EntryB>>), 0)}
  /\ userFile \in {Garbage, JSONstringify(Arr(<<EntryA, EntryA2>>), 2)}

\* Sessions spent in the library modal: every stored text and every file.
InitLibrary ==
  /\ Constructed
  /\ \/ store \in StoredTexts /\ userFile = JSONstringify(Arr(<<EntryB>>), 2)
     \/ store \in {NoText, JSONstringify(Arr(<<EntryA>>), 0)} /\ userFile \in Texts

\* ------------------------------------------------------------- rendering
IsArray(val) == val.t = "array"

\* App's render evaluates library.find(img => img.imageDataUrl === outputImage):
\* it throws when library has no find method or when it reaches a null element.
RenderThrows(lib, out) ==
  \/ ~IsArray(lib)
  \/ \E i \in 1..Len(lib.elems) :
       /\ lib.elems[i].t = "null"
       /\ \A j \in 1..(i - 1) : lib.elems[j].imageDataUrl # out

\* isSaved looking for an entry whose id is the output image.
isSavedById ==
  \E i \in 1..Len(library.elems) : library.elems[i].id = outputImage

isSaved ==
  \E i \in 1..Len(library.elems) : library.elems[i].imageDataUrl = outputImage

Record(op) == last' = op

\* ------------------------------------------------------------ operations
\* The load effect: what the library is after it, from the text
\* localStorage.getItem returned and the library before.
loadLibrary(saved, current) ==
  LET parsed == JSONparse(saved)
  IN IF saved.kind \in {"absent", "empty"} THEN current
     ELSE IF parsed.ok THEN parsed.val
     ELSE Arr(<<>>)

\* The effects that run once after the first render: the load effect and the
\* reset effect (which finds everything already reset).
Mount ==
  /\ ~mounted
  /\ mounted' = TRUE
  /\ LET lib == loadLibrary(store, library)
     IN /\ library' = lib
        /\ crashed' = RenderThrows(lib, outputImage)
        /\ Record([NoOp EXCEPT !.op = "load", !.pre = library])
  /\ prompt' = "" /\ outputImage' = Null /\ error' = Null
  /\ inputImage' = NoImage /\ inputImage2' = NoImage
  /\ UNCHANGED <<store, userFile, exported, reads, isLoading, isLibraryOpen, request, call, saves, imports,
                 capacity, activeTab, uploads>>

Running == mounted /\ ~crashed

OpenLibrary ==
  /\ Running /\ ~isLibraryOpen
  /\ isLibraryOpen' = TRUE
  /\ UNCHANGED <<library, store, userFile, exported, reads, uiVars, mounted, crashed, saves, imports, last, capacity,
                 studioVars>>

CloseLibrary ==
  /\ Running /\ isLibraryOpen
  /\ isLibraryOpen' = FALSE
  /\ UNCHANGED <<library, store, userFile, exported, reads, uiVars, mounted, crashed, saves, imports, last, capacity,
                 studioVars>>

SetPrompt(p) ==
  /\ Running
  /\ prompt' = p
  /\ UNCHANGED <<library, store, userFile, exported, reads, outputImage, isLoading, error,
                 isLibraryOpen, request, call, mounted, crashed, saves, imports, last, capacity,
                 studioVars>>

\* isGenerateDisabled without the tests of the input images.
isGenerateDisabledPromptOnly == isLoading \/ prompt = ""

isGenerateDisabled ==
  IF isLoading \/ prompt = "" THEN TRUE
  ELSE IF activeTab = "text-to-photo" THEN FALSE
  ELSE IF activeTab = "image-fusion" THEN inputImage.t = "null" \/ inputImage2.t = "null"
  ELSE IF requiresImage(activeTab) THEN inputImage.t = "null"
  ELSE TRUE

\* The service function handleGenerate awaits.
serviceCall ==
  IF activeTab = "image-fusion" /\ inputImage.t # "null" /\ inputImage2.t # "null"
  THEN "generateImageFromTwoImages"
  ELSE IF requiresImage(activeTab) /\ inputImage.t # "null"
  THEN "generateImageFromImage"
  ELSE "generateImageFromText"

handleGenerate ==
  /\ Running /\ ~isGenerateDisabled
  /\ isLoading' = TRUE
  /\ outputImage' = Null
  /\ error' = Null
  /\ request' = "sent"
  /\ call' = [fn |-> serviceCall, tab |-> activeTab]
  /\ UNCHANGED <<library, store, userFile, exported, reads, prompt, isLibraryOpen,
                 mounted, crashed, saves, imports, last, capacity,
                 studioVars>>

\* generateImageFromText resolves with the image bytes ...
GenerateResolve(url) ==
  /\ Running /\ request = "sent"
  /\ outputImage' = Str(url)
  /\ isLoading' = FALSE
  /\ request' = "none"
  /\ call' = NoCall
  /\ UNCHANGED <<library, store, userFile, exported, reads, prompt, error, isLibraryOpen,
                 mounted, crashed, saves, imports, last, capacity,
                 studioVars>>

\* ... or throws (rejection, no generated image).
GenerateReject ==
  /\ Running /\ request = "sent"
  /\ error' = Str("errorMessage")
  /\ isLoading' = FALSE
  /\ request' = "none"
  /\ call' = NoCall
  /\ UNCHANGED <<library, store, userFile, exported, reads, prompt, outputImage, isLibraryOpen,
                 mounted, crashed, saves, imports, last, capacity,
                 studioVars>>

\* localStorage.setItem throws QuotaExceededError when the text does not fit.
SetItemThrows(newLibrary) == Len(newLibrary.elems) > capacity

\* updateLibrary without the localStorage.setItem call.
updateLibraryInMemory(newLibrary) ==
  /\ library' = newLibrary
  /\ store' = store

\* updateLibrary: setLibrary takes effect even when localStorage.setItem
\* then throws; the exception leaves updateLibrary.
updateLibrary(newLibrary) ==
  /\ library' = newLibrary
  /\ store' = IF SetItemThrows(newLibrary) THEN store ELSE JSONstringify(newLibrary, 0)

\* An id that an entry of the stored library already has.
ReusedId == "b"

\* The id and timestamp handleSaveToLibrary makes from Date.now() and
\* Math.random(): different from every id made before and from the ids of
\* the files the user holds.
FreshId == "g" \o ToString(saves + 1)
DateNow == 3000 + saves

\* outputImage.substring(indexOf(":") + 1, indexOf(";")) of the data URL
\* handleGenerate builds, 'data:image/png;base64,...'
MimeTypeOf(url) == "image/png"

\* handleSaveToLibrary without the early return on an empty prompt.
handleSaveToLibraryAnyPrompt ==
  /\ Running /\ saves < MaxSaves
  /\ ~isLoading /\ ~Truthy(error) /\ Truthy(outputImage) /\ ~isSaved
  /\ LET newImage == Obj(Str(FreshId), outputImage, Str(MimeTypeOf(outputImage.s)),
                         Str(prompt), Num(DateNow))
         newLibrary == Arr(<<newImage>> \o library.elems)
     IN /\ updateLibrary(newLibrary)
        /\ saves' = saves + 1
        /\ Record([NoOp EXCEPT !.op = "save", !.pre = library,
                               !.count = 1, !.writeFailed = SetItemThrows(newLibrary),
                               !.threw = SetItemThrows(newLibrary)])
  /\ UNCHANGED <<userFile, exported, reads, uiVars, isLibraryOpen, mounted, crashed, imports, capacity,
                 studioVars>>

\* The save button is rendered when there is an output image and neither a
\* request nor an error, and is enabled while isSaved is false.
handleSaveToLibrary ==
  /\ Running /\ saves < MaxSaves
  /\ ~isLoading /\ ~Truthy(error) /\ Truthy(outputImage) /\ ~isSaved
  /\ IF ~Truthy(outputImage) \/ prompt = ""
     THEN /\ UNCHANGED <<library, store, saves>>
          /\ Record([NoOp EXCEPT !.op = "save", !.pre = library])
     ELSE LET newImage == Obj(Str(FreshId), outputImage, Str(MimeTypeOf(outputImage.s)),
                              Str(prompt), Num(DateNow))
              newLibrary == Arr(<<newImage>> \o library.elems)
          IN /\ updateLibrary(newLibrary)
             /\ saves' = saves + 1
             /\ Record([NoOp EXCEPT !.op = "save", !.pre = library,
                                    !.count = 1, !.writeFailed = SetItemThrows(newLibrary),
                                    !.threw = SetItemThrows(newLibrary)])
  /\ UNCHANGED <<userFile, exported, reads, uiVars, isLibraryOpen, mounted, crashed, imports, capacity,
                 studioVars>>

RemoveAt(q, i) == [j \in 1..(Len(q) - 1) |-> IF j < i THEN q[j] ELSE q[j + 1]]

\* A delete that removes only the first entry with the id.
withoutFirstWithId(elems, id) ==
  LET hits == {j \in 1..Len(elems) : elems[j].id = id}
  IN IF hits = {} THEN elems
     ELSE RemoveAt(elems, CHOOSE j \in hits : \A k \in hits : j <= k)

\* library.filter(img => img.id !== id)
withoutId(elems, id) == SelectSeq(elems, LAMBDA img : img.id # id)

\* The delete button of entry i of the open library modal.
handleDeleteFromLibrary(i) ==
  /\ Running /\ isLibraryOpen
  /\ i \in 1..Len(library.elems)
  /\ LET id == library.elems[i].id
         updatedLibrary == Arr(withoutId(library.elems, id))
     IN /\ updateLibrary(updatedLibrary)
        /\ Record([NoOp EXCEPT !.op = "delete", !.pre = library,
                               !.writeFailed = SetItemThrows(updatedLibrary),
                               !.threw = SetItemThrows(updatedLibrary)])
  /\ UNCHANGED <<userFile, exported, reads, uiVars, isLibraryOpen, mounted, crashed, saves, imports, capacity,
                 studioVars>>

\* The export button is disabled while the library is empty, and the handler
\* returns early on an empty library.
handleExportLibrary ==
  /\ Running /\ isLibraryOpen
  /\ Len(library.elems) # 0
  /\ exported' = JSONstringify(library, 2)
  /\ Record([NoOp EXCEPT !.op = "export", !.pre = library,
                         !.file = JSONstringify(library, 2)])
  /\ UNCHANGED <<library, store, userFile, reads, uiVars, isLibraryOpen, mounted, crashed, saves, imports, capacity,
                 studioVars>>

\* The effect on [activeTab], run after a render in which the tab changed.
ResetInputs ==
  /\ prompt' = ""
  /\ inputImage' = NoImage
  /\ inputImage2' = NoImage
  /\ outputImage' = Null
  /\ error' = Null

\* A click on the tab of feature key: setActiveTab, and when the tab changed
\* the reset effect, which React runs before it handles anything else.
SelectTab(key) ==
  /\ Running
  /\ activeTab' = key
  /\ IF key # activeTab
     THEN ResetInputs
     ELSE UNCHANGED <<prompt, inputImage, inputImage2, outputImage, error>>
  /\ UNCHANGED <<library, store, userFile, exported, reads, isLoading, isLibraryOpen, request, call,
                 mounted, crashed, saves, imports, capacity, last, uploads>>

\* handleImageUpload(file, imageSlot) up to its await: the uploader of slot 1
\* is rendered on the tabs that require an image, that of slot 2 on Image
\* Fusion.
handleImageUpload(file, imageSlot) ==
  /\ Running
  /\ requiresImage(activeTab)
  /\ imageSlot = 2 => activeTab = "image-fusion"
  /\ Len(uploads) < MaxUploads
  /\ error' = Null
  /\ uploads' = Append(uploads, [slot |-> imageSlot, file |-> file, at |-> "await"])
  /\ UNCHANGED <<library, store, userFile, exported, reads, prompt, outputImage, isLoading,
                 isLibraryOpen, request, call, mounted, crashed, saves, imports, capacity, last,
                 activeTab, inputImage, inputImage2>>

\* The value fileToBase64 resolves with: the text after the first comma of the
\* data URL, the file's type and the data URL.
fileToBase64(file) ==
  ImageData(SplitComma1(file.dataUrl), Str(file.type), Str(file.dataUrl))

\* fileToBase64 resolves (reader.onload) and call u of handleImageUpload
\* resumes after its await.
UploadLoads(u) ==
  /\ Running /\ u \in 1..Len(uploads)
  /\ uploads[u].at = "await"
  /\ uploads' = [uploads EXCEPT ![u].at = "done"]
  /\ LET imageData == fileToBase64(uploads[u].file)
     IN IF uploads[u].slot = 1
        THEN inputImage' = imageData /\ UNCHANGED inputImage2
        ELSE inputImage2' = imageData /\ UNCHANGED inputImage
  /\ UNCHANGED <<library, store, userFile, exported, reads, uiVars, isLibraryOpen,
                 mounted, crashed, saves, imports, capacity, last, activeTab>>

\* fileToBase64 rejects (reader.onerror) and call u resumes in its catch.
UploadFails(u) ==
  /\ Running /\ u \in 1..Len(uploads)
  /\ uploads[u].at = "await"
  /\ uploads' = [uploads EXCEPT ![u].at = "catch"]
  /\ error' = Str("errorTitle")
  /\ UNCHANGED <<library, store, userFile, exported, reads, prompt, outputImage, isLoading,
                 isLibraryOpen, request, call, mounted, crashed, saves, imports, capacity, last,
                 activeTab, inputImage, inputImage2>>

\* The 'use this image' button of entry i of the open library modal.  The
\* handler throws at imageDataUrl.split when the entry has no imageDataUrl
\* string; when it changes the tab the reset effect follows.
handleUseImageFromLibrary(i) ==
  /\ Running /\ isLibraryOpen
  /\ i \in 1..Len(library.elems)
  /\ LET image == library.elems[i]
         imageData == ImageData(SplitComma1(image.imageDataUrl.s), image.mimeType,
                                image.imageDataUrl)
     IN IF image.imageDataUrl.t # "string"
        THEN UNCHANGED <<activeTab, inputImage, inputImage2, prompt, outputImage, error,
                         isLibraryOpen>>
        ELSE /\ isLibraryOpen' = FALSE
             /\ IF activeTab = "image-fusion" /\ inputImage.t # "null"
                THEN /\ inputImage2' = imageData
                     /\ UNCHANGED <<activeTab, inputImage, prompt, outputImage, error>>
                ELSE IF activeTab = "image-fusion"
                THEN /\ inputImage' = imageData
                     /\ UNCHANGED <<activeTab, inputImage2, prompt, outputImage, error>>
                ELSE /\ activeTab' = "image-to-photo"
                     /\ IF activeTab # "image-to-photo"
                        THEN ResetInputs
                        ELSE /\ inputImage' = imageData
                             /\ UNCHANGED <<inputImage2, prompt, outputImage, error>>
  /\ UNCHANGED <<library, store, userFile, exported, reads, isLoading, request, call,
                 mounted, crashed, saves, imports, capacity, last, uploads>>

\* handleImportLibrary: creates the reader and starts the read; onload and
\* onerror keep the library of the render that started the import.
handleImportLibrary(file) ==
  /\ Running /\ isLibraryOpen
  /\ file.kind # "absent"
  /\ imports < MaxImports
  /\ imports' = imports + 1
  /\ reads' = Append(reads, [file |-> file, library |-> library])
  /\ UNCHANGED <<library, store, userFile, exported, uiVars, isLibraryOpen, mounted, crashed,
                 saves, capacity, last,
                 studioVars>>

\* The filter of reader.onload: every && operand must be truthy.
IsValidImported(item) ==
  /\ Truthy(item.id) /\ item.id.t = "string"
  /\ Truthy(item.imageDataUrl) /\ item.imageDataUrl.t = "string"
  /\ Truthy(item.prompt) /\ item.prompt.t = "string"
  /\ Truthy(item.timestamp) /\ item.timestamp.t = "number"

validImportedImages(importedData) == SelectSeq(importedData.elems, IsValidImported)

existingIds(lib) == {lib.elems[i].id : i \in 1..Len(lib.elems)}

newImages(importedData, lib) ==
  SelectSeq(validImportedImages(importedData), LAMBDA img : img.id \notin existingIds(lib))

\* ImportThrows without the Array.isArray check of the parsed value.
ImportThrowsParseOnly(text) ==
  LET parsed == JSONparse(text)
  IN \/ ~parsed.ok
     \/ \E i \in 1..Len(parsed.val.elems) : parsed.val.elems[i].t = "null"

\* What the try block of reader.onload throws before it changes anything:
\* JSON.parse on a text that is no JSON, the Error for a value that is no
\* array, the TypeError of reading item.id of null.
ImportThrows(text) ==
  LET parsed == JSONparse(text)
  IN \/ ~parsed.ok
     \/ ~IsArray(parsed.val)
     \/ \E i \in 1..Len(parsed.val.elems) : parsed.val.elems[i].t = "null"

\* reader.onload of pending read r.  An exception of updateLibrary is caught
\* by the handler's catch like every other: alert(T.importError).
ReaderOnload(r) ==
  /\ Running /\ r \in 1..Len(reads)
  /\ reads' = RemoveAt(reads, r)
  /\ LET text == reads[r].file
         lib == reads[r].library
         op == [NoOp EXCEPT !.op = "import", !.pre = library, !.file = text]
     IN IF ImportThrows(text)
        THEN /\ UNCHANGED <<library, store>>
             /\ Record([op EXCEPT !.alert = "importError"])
        ELSE LET new == newImages(JSONparse(text).val, lib)
                 newLibrary == Arr(new \o lib.elems)
             IN IF Len(new) > 0
                THEN /\ updateLibrary(newLibrary)
                     /\ Record([op EXCEPT !.alert = IF SetItemThrows(newLibrary)
                                                    THEN "importError" ELSE "importSuccess",
                                          !.count = IF SetItemThrows(newLibrary) THEN 0 ELSE Len(new),
                                          !.writeFailed = SetItemThrows(newLibrary)])
                ELSE /\ UNCHANGED <<library, store>>
                     /\ Record([op EXCEPT !.alert = "noNewImages"])
  /\ UNCHANGED <<userFile, exported, uiVars, isLibraryOpen, mounted, crashed, saves, imports, capacity,
                 studioVars>>

\* reader.onerror of pending read r.
ReaderOnerror(r) ==
  /\ Running /\ r \in 1..Len(reads)
  /\ reads' = RemoveAt(reads, r)
  /\ Record([NoOp EXCEPT !.op = "readError", !.pre = library, !.file = reads[r].file,
                         !.alert = "importError"])
  /\ UNCHANGED <<library, store, userFile, exported, uiVars, isLibraryOpen, mounted, crashed,
                 saves, imports, capacity,
                 studioVars>>

Next ==
  \/ Mount
  \/ OpenLibrary
  \/ CloseLibrary
  \/ \E p \in Prompts : SetPrompt(p)
  \/ handleGenerate
  \/ \E url \in Urls : GenerateResolve(url)
  \/ GenerateReject
  \/ handleSaveToLibrary
  \/ \E i \in 1..Len(library.elems) : handleDeleteFromLibrary(i)
  \/ handleExportLibrary
  \/ \E file \in {userFile, exported} : handleImportLibrary(file)
  \/ \E r \in 1..Len(reads) : ReaderOnload(r)
  \/ \E r \in 1..Len(reads) : ReaderOnerror(r)

Spec == Init /\ [][Next]_vars

\* Every operation of the app, in sessions that start without a stored
\* library, hold one file to import, and make one upload.
InitApp ==
  /\ Constructed
  /\ capacity = 99
  /\ store = NoText
  /\ userFile = JSONstringify(Arr(<<EntryB>>), 2)

NextApp ==
  \/ Mount
  \/ OpenLibrary
  \/ SetPrompt("cat")
  \/ handleGenerate
  \/ GenerateResolve("data:image/png;base64,AAAA")
  \/ GenerateReject
  \/ handleSaveToLibrary
  \/ \E i \in 1..Len(library.elems) : handleDeleteFromLibrary(i)
  \/ handleExportLibrary
  \/ \E file \in {userFile, exported} : handleImportLibrary(file)
  \/ \E r \in 1..Len(reads) : ReaderOnload(r)
  \/ \E key \in {"text-to-photo", "image-fusion"} : SelectTab(key)
  \/ \E file \in UploadFiles : uploads = <<>> /\ handleImageUpload(file, 1)
  \/ \E u \in 1..Len(uploads) : UploadLoads(u)
  \/ \E i \in 1..Len(library.elems) : handleUseImageFromLibrary(i)

SpecApp == InitApp /\ [][NextApp]_vars

\* The operations on the inputs and the output, on a stored library that
\* stays as it is.
InitStudio ==
  /\ Constructed
  /\ capacity = 99
  /\ store = JSONstringify(Arr(<<EntryA>>), 0)
  /\ userFile = Garbage

NextStudio ==
  \/ Mount
  \/ OpenLibrary
  \/ CloseLibrary
  \/ \E p \in Prompts : SetPrompt(p)
  \/ \E key \in FeatureKeys : SelectTab(key)
  \/ \E file \in UploadFiles, imageSlot \in {1, 2} : handleImageUpload(file, imageSlot)
  \/ \E u \in 1..Len(uploads) : UploadLoads(u)
  \/ \E u \in 1..Len(uploads) : UploadFails(u)
  \/ \E i \in 1..Len(library.elems) : handleUseImageFromLibrary(i)
  \/ handleGenerate
  \/ \E url \in Urls : GenerateResolve(url)
  \/ GenerateReject

SpecStudio == InitStudio /\ [][NextStudio]_vars

\* Sessions that generate, save, delete and import on one stored library,
\* with one import pending at a time.
InitSave ==
  /\ Constructed
  /\ store = JSONstringify(Arr(<<EntryB>>), 0)
  /\ userFile = JSONstringify(Arr(<<EntryA, EntryA2>>), 2)

NextSave ==
  \/ Mount
  \/ OpenLibrary
  \/ \E p \in Prompts : SetPrompt(p)
  \/ handleGenerate
  \/ \E url \in Urls : GenerateResolve(url)
  \/ GenerateReject
  \/ handleSaveToLibrary
  \/ \E i \in 1..Len(library.elems) : handleDeleteFromLibrary(i)
  \/ reads = <<>> /\ handleImportLibrary(userFile)
  \/ \E r \in 1..Len(reads) : ReaderOnload(r)

SpecSave == InitSave /\ [][NextSave]_vars

\* The operations of the library modal, with the load at mount.
NextLibrary ==
  \/ Mount
  \/ OpenLibrary
  \/ CloseLibrary
  \/ \E i \in 1..Len(library.elems) : handleDeleteFromLibrary(i)
  \/ handleExportLibrary
  \/ \E file \in {userFile, exported} : handleImportLibrary(file)
  \/ \E r \in 1..Len(reads) : ReaderOnload(r)
  \/ \E r \in 1..Len(reads) : ReaderOnerror(r)

SpecLibrary == InitLibrary /\ [][NextLibrary]_vars

\* ---------------------------------------------------------------- claims
Range(q) == {q[i] : i \in 1..Len(q)}

IdsOf(q) == {q[i].id : i \in 1..Len(q)}

UniqueIds(q) == \A i, j \in 1..Len(q) : i # j => q[i].id # q[j].id

\* The entries of a text that parses to an array (none otherwise).
EntriesOf(text) == JSONparse(text).val.elems

IsJsonArray(text) == JSONparse(text).ok /\ IsArray(JSONparse(text).val)

\* This step is reader.onload of pending read r.
ImportLoads(r) ==
  /\ r \in 1..Len(reads)
  /\ reads' = RemoveAt(reads, r)
  /\ last'.op = "import"
  /\ last'.file = reads[r].file
  /\ last'.pre = library

\* This step is reader.onload or reader.onerror of pending read r.
ReadEnds(r) ==
  /\ r \in 1..Len(reads)
  /\ reads' = RemoveAt(reads, r)
  /\ last'.op \in {"import", "readError"}
  /\ last'.file = reads[r].file
  /\ last'.pre = library

\* C1: in every reachable state no two entries of the library have the same id.
C1_UniqueIds == UniqueIds(library.elems)

\* C2: importing the file that export wrote for a library with unique ids,
\* into a library that is empty when the import starts and when its read
\* completes, yields a library equal to the exported one (its export is the
\* same file).
C2_RoundTrip ==
  [][\A r \in 1..Len(reads) :
       (/\ ImportLoads(r)
        /\ exported # NoText
        /\ reads[r].file = exported
        /\ UniqueIds(EntriesOf(exported))
        /\ Len(reads[r].library.elems) = 0
        /\ Len(library.elems) = 0)
       => JSONstringify(library', 2) = exported]_vars

\* C3: an import whose payload is no JSON or no array, or whose read fails,
\* ends with the import failure alert and changes neither the library nor the
\* store.
C3_FailedImportKeepsState ==
  [][\A r \in 1..Len(reads) :
       (ReadEnds(r) /\ (last'.op = "readError" \/ ~IsJsonArray(reads[r].file)))
       => (/\ last'.alert = "importError"
           /\ library' = library
           /\ store' = store)]_vars

\* C3 witness: an import of a payload that is no JSON array has ended with
\* the failure alert on a library that holds entries.
C3_Witness ==
  /\ last.op = "import"
  /\ ~IsJsonArray(last.file)
  /\ last.alert = "importError"
  /\ last.pre = library
  /\ Len(library.elems) > 0
  /\ store = JSONstringify(library, 0)

\* C4: when the storage write of the last operation failed, no exception left
\* the handler, the failure was reported as a persistence error, and the
\* library holds the collection that did not fit.
C4_WriteFailureHandled ==
  last.writeFailed =>
    (/\ ~last.threw
     /\ last.alert = "persistenceError"
     /\ SetItemThrows(library))

\* C5: right after the load the library is an array, and it is empty when the
\* store is absent, is no JSON, or is JSON that is no array.
C5_LoadFallsBack ==
  last.op = "load" =>
    (/\ IsArray(library)
     /\ (~IsJsonArray(store) => Len(library.elems) = 0))

\* C6: when the read of an import completes, every entry of the library of
\* that moment is still in the library afterwards, and every entry of the
\* library afterwards was in it or comes from the file.
C6_ImportKeepsCurrent ==
  [][\A r \in 1..Len(reads) :
       ImportLoads(r)
       => (/\ Range(library.elems) \subseteq Range(library'.elems)
           /\ Range(library'.elems) \subseteq
                (Range(library.elems) \cup Range(EntriesOf(reads[r].file))))]_vars

\* C7: for a payload that is a JSON array, read while the library stayed as
\* it was when the import started and stored without a write failure, the
\* library after the import is the validated entries whose id is not in the
\* current library, in file order, followed by the previous library; the
\* reported count is their number.
C7_ImportPrepends ==
  [][\A r \in 1..Len(reads) :
       (/\ ImportLoads(r)
        /\ IsJsonArray(reads[r].file)
        /\ reads[r].library = library
        /\ ~last'.writeFailed)
       => LET added == SelectSeq(SelectSeq(EntriesOf(reads[r].file), IsValidImported),
                                 LAMBDA img : img.id \notin IdsOf(library.elems))
          IN /\ library'.elems = added \o library.elems
             /\ IF Len(added) > 0
                THEN last'.alert = "importSuccess" /\ last'.count = Len(added)
                ELSE last'.alert = "noNewImages"]_vars

\* The validation C8 states: id a non-empty string, imageDataUrl a string,
\* prompt a non-empty string, timestamp a number.
C8_Valid(item) ==
  /\ item.t = "object"
  /\ item.id.t = "string" /\ item.id.s # ""
  /\ item.imageDataUrl.t = "string"
  /\ item.prompt.t = "string" /\ item.prompt.s # ""
  /\ item.timestamp.t = "number"

\* C8: an import into an empty library, stored without a write failure, keeps
\* exactly the entries of the array that pass that validation, and does not
\* fail.
C8_ValidationRule ==
  [][\A r \in 1..Len(reads) :
       (/\ ImportLoads(r)
        /\ IsJsonArray(reads[r].file)
        /\ Len(reads[r].library.elems) = 0
        /\ Len(library.elems) = 0
        /\ ~last'.writeFailed)
       => (/\ library'.elems = SelectSeq(EntriesOf(reads[r].file), C8_Valid)
           /\ last'.alert # "importError")]_vars

\* C9: importing an array of one valid entry whose id is in the current
\* library changes neither the library nor the store and reports 'no new
\* images'.
C9_Dedup ==
  [][\A r \in 1..Len(reads) :
       (/\ ImportLoads(r)
        /\ IsJsonArray(reads[r].file)
        /\ Len(EntriesOf(reads[r].file)) = 1
        /\ IsValidImported(EntriesOf(reads[r].file)[1])
        /\ EntriesOf(reads[r].file)[1].id \in IdsOf(library.elems))
       => (/\ library' = library
           /\ store' = store
           /\ last'.alert = "noNewImages"
           /\ last'.count = 0)]_vars

\* An entry of the shape handleSaveToLibrary writes.
IsSavedImage(e) ==
  /\ e.t = "object"
  /\ e.id.t = "string" /\ e.id.s # ""
  /\ e.imageDataUrl.t = "string" /\ e.imageDataUrl.s # ""
  /\ e.mimeType.t = "string" /\ e.mimeType.s # ""
  /\ e.prompt.t = "string" /\ e.prompt.s # ""
  /\ e.timestamp.t = "number" /\ e.timestamp.n > 0

\* The exported file holds a library built by save-to-library operations.
ExportOfSaves ==
  /\ exported # NoText
  /\ UniqueIds(EntriesOf(exported))
  /\ \A i \in 1..Len(EntriesOf(exported)) : IsSavedImage(EntriesOf(exported)[i])

\* C10: importing the export of a library built by saves into a library that
\* shares none of its ids adds every exported entry; importing the same file
\* again right after adds none and leaves the library as it is.
C10_ImportTwice ==
  [][\A r \in 1..Len(reads) :
       (ImportLoads(r) /\ reads[r].file = exported /\ ExportOfSaves)
       => (/\ IdsOf(library.elems) \cap IdsOf(EntriesOf(exported)) = {}
              => library'.elems = EntriesOf(exported) \o library.elems
           /\ (/\ last.op = "import"
               /\ last.file = exported
               /\ IdsOf(last.pre.elems) \cap IdsOf(EntriesOf(exported)) = {})
              => (library' = library /\ last'.count = 0))]_vars

\* A save-to-library, a delete or the completion of an import's read.
LibraryMutation ==
  \/ handleSaveToLibrary
  \/ \E i \in 1..Len(library.elems) : handleDeleteFromLibrary(i)
  \/ \E r \in 1..Len(reads) : ReaderOnload(r)

\* What a load of this stored text returns.
Loaded(text) == loadLibrary(text, Arr(<<>>))

C12_SavePrepends ==
  [][handleSaveToLibrary
     => IF Truthy(outputImage) /\ prompt # ""
        THEN /\ Len(library'.elems) = Len(library.elems) + 1
             /\ library'.elems[1].imageDataUrl = outputImage
             /\ library'.elems[1].prompt = Str(prompt)
             /\ Tail(library'.elems) = library.elems
        ELSE library' = library /\ store' = store]_vars

\* C12 witness: a save has put the output image in front of a library that
\* held entries.
C12_Witness ==
  /\ last.op = "save"
  /\ last.count = 1
  /\ Len(last.pre.elems) > 0
  /\ library.elems = <<library.elems[1]>> \o last.pre.elems
  /\ library.elems[1].imageDataUrl = outputImage
  /\ library.elems[1].prompt = Str(prompt)

\* Ids that delete may be asked for.
SomeIds == {Str(x) : x \in {"a", "b", "c", "s", "none"}}

\* C13: a delete of the id of entry i leaves exactly the entries with another
\* id, unchanged and in their order; and for an id that no entry has, the
\* handler's filter gives the library back as it is.
C13_DeleteRemovesId ==
  [][/\ \A i \in 1..Len(library.elems) :
          handleDeleteFromLibrary(i)
          => library'.elems = SelectSeq(library.elems,
                                        LAMBDA img : img.id # library.elems[i].id)
      /\ \A x \in SomeIds \ IdsOf(library.elems) :
          withoutId(library.elems, x) = library.elems]_vars

\* C13 witness: a delete has removed an entry from between or beside others,
\* which are what remains.
C13_Witness ==
  /\ last.op = "delete"
  /\ Len(library.elems) > 0
  /\ Len(last.pre.elems) > Len(library.elems)
  /\ \E x \in IdsOf(last.pre.elems) : library.elems = withoutId(last.pre.elems, x)

UrlsOf(q) == {q[i].imageDataUrl : i \in 1..Len(q)}

\* C15: a save-to-library happens only while no entry of the library has the
\* output image as its imageDataUrl (the 'saved' flag is false), so the entry
\* it adds never has the imageDataUrl of an entry already in the library.
C15_NoDuplicateSave ==
  [][handleSaveToLibrary
     => (/\ ~isSaved
         /\ outputImage \notin UrlsOf(library.elems)
         /\ (library' # library
              => library'.elems[1].imageDataUrl \notin UrlsOf(library.elems)))]_vars

\* C15 witness: an image was saved beside other entries and is now flagged as
\* saved.
C15_Witness ==
  /\ last.op = "save"
  /\ last.count = 1
  /\ Len(library.elems) > 1
  /\ isSaved
  /\ outputImage = library.elems[1].imageDataUrl
  /\ outputImage \notin UrlsOf(last.pre.elems)

OtherOperation ==
  \/ handleGenerate
  \/ \E url \in Urls : GenerateResolve(url)
  \/ GenerateReject
  \/ \E key \in FeatureKeys : SelectTab(key)
  \/ \E file \in UploadFiles, imageSlot \in {1, 2} : handleImageUpload(file, imageSlot)
  \/ \E u \in 1..Len(uploads) : UploadLoads(u) \/ UploadFails(u)
  \/ \E i \in 1..Len(library.elems) : handleUseImageFromLibrary(i)
  \/ handleExportLibrary

\* C16: generate, tab change, upload, use-image and export leave the library
\* and the store unchanged, and the number of library entries decreases only
\* in a delete.
C16_OnlyLibraryOperations ==
  [][/\ OtherOperation => (library' = library /\ store' = store)
     /\ Len(library'.elems) < Len(library.elems)
          => \E i \in 1..Len(library.elems) : handleDeleteFromLibrary(i)]_vars

NewestFirst(lib) ==
  /\ IsArray(lib)
  /\ \A i \in 1..Len(lib.elems) :
       /\ lib.elems[i].t = "object"
       /\ lib.elems[i].timestamp.t = "number"
  /\ \A i \in 1..(Len(lib.elems) - 1) :
       lib.elems[i].timestamp.n >= lib.elems[i + 1].timestamp.n

\* C17: the library is ordered newest first: a save, a delete or an import
\* that starts from a library ordered by decreasing timestamp leaves it
\* ordered by decreasing timestamp.
C17_NewestFirst ==
  [][(LibraryMutation /\ NewestFirst(library)) => NewestFirst(library')]_vars

RequestEnds == (\E url \in Urls : GenerateResolve(url)) \/ GenerateReject

\* C18: the end of a generate request clears loading, starts no new request
\* and leaves exactly one outcome: an output image and no error, or the
\* generic error message and no output image; a failed request leaves the
\* error outcome.
C18_OneOutcome ==
  [][RequestEnds
     => (/\ ~isLoading'
         /\ request' = "none"
         /\ \/ Truthy(outputImage') /\ error' = Null
            \/ error' = Str("errorMessage") /\ outputImage' = Null
         /\ GenerateReject => (error' = Str("errorMessage") /\ outputImage' = Null))]_vars

SlotImage(imageSlot) == IF imageSlot = 1 THEN inputImage ELSE inputImage2

\* C19: when the read of an upload completes after the read of an upload
\* started later for the same slot, the slot keeps the image of the later
\* upload.
C19_LatestUploadWins ==
  [][\A u \in 1..Len(uploads) :
       UploadLoads(u)
       => \A v \in (u + 1)..Len(uploads) :
            (/\ uploads[v].slot = uploads[u].slot
             /\ uploads[v].at = "done"
             /\ SlotImage(uploads[v].slot) = fileToBase64(uploads[v].file))
            => SlotImage(uploads[v].slot)' = fileToBase64(uploads[v].file)]_vars

EntryImage(image) ==
  ImageData(SplitComma1(image.imageDataUrl.s), image.mimeType, image.imageDataUrl)

\* C20: 'use this image' on an entry, once the reset effect has run: away from
\* Image Fusion the tab is Image-to-Photo and slot 1 holds the entry's image;
\* on Image Fusion the tab stays and the entry's image fills slot 2 when
\* slot 1 is filled, slot 1 otherwise.
C20_UseImage ==
  [][\A i \in 1..Len(library.elems) :
       (handleUseImageFromLibrary(i) /\ library.elems[i].imageDataUrl.t = "string")
       => IF activeTab = "image-fusion"
          THEN /\ activeTab' = "image-fusion"
               /\ IF inputImage.t # "null"
                  THEN inputImage2' = EntryImage(library.elems[i]) /\ inputImage' = inputImage
                  ELSE inputImage' = EntryImage(library.elems[i])
          ELSE /\ activeTab' = "image-to-photo"
               /\ inputImage' = EntryImage(library.elems[i])]_vars

\* C21: the response of a generate request that was started on another tab
\* than the active one changes neither the output image nor the error.
C21_StaleResponseIgnored ==
  [][(RequestEnds /\ call.tab # activeTab)
     => (outputImage' = outputImage /\ error' = error)]_vars

\* C22: a generate request starts only when none is pending, the prompt is
\* non-empty and the images of the active feature are present; it makes the
\* text-only call on Text-to-Photo, the two-image call on Image Fusion and
\* the one-image call on the other features.
C22_GenerateGuard ==
  [][handleGenerate
     => (/\ request = "none" /\ call = NoCall
         /\ prompt # ""
         /\ activeTab = "text-to-photo" => call'.fn = "generateImageFromText"
         /\ activeTab = "image-fusion"
              => (/\ inputImage.t # "null" /\ inputImage2.t # "null"
                  /\ call'.fn = "generateImageFromTwoImages")
         /\ activeTab \notin {"text-to-photo", "image-fusion"}
              => (inputImage.t # "null" /\ call'.fn = "generateImageFromImage"))]_vars

\* C22 witness: the two-image call is pending on Image Fusion with both slots
\* filled.
C22_Witness ==
  /\ isLoading /\ request = "sent"
  /\ call = [fn |-> "generateImageFromTwoImages", tab |-> "image-fusion"]
  /\ activeTab = "image-fusion"
  /\ inputImage.t # "null" /\ inputImage2.t # "null"
  /\ prompt # ""

====
